---------------------------- MODULE Spec2Model ----------------------------
(***************************************************************************)
(* Model of scripts/merge.py of geoip-all-in-one: the RangeTable with its  *)
(* forward-only sweep cursor, the center picker, the conflict resolver     *)
(* pick_winner and the boundary sweep / coalescing loop of main.           *)
(*                                                                         *)
(* Specifications:                                                         *)
(*   SweepSpec   one RangeTable: add, finalize, sweep at non-decreasing    *)
(*               points                                                    *)
(*   CenterSpec  pick_center_coords applied to bounded inputs              *)
(*   WinnerSpec  pick_winner applied to bounded observations and configs   *)
(*   Spec        main: boundaries, sweep loop, coalescing, and a second    *)
(*               run of the same merge on the same inputs                  *)
(***************************************************************************)
EXTENDS Integers, Sequences, FiniteSets, TLC

VARIABLES
    \* ---- one RangeTable (SweepSpec) ----
    rt,           \* [starts, ends, data, cursor]: the RangeTable's slots
    rtPhase,      \* "adding" until finalize() was called, then "finalized"
    rtOverlaps,   \* the overlap count finalize() reports
    lastPoint,    \* the point of the last sweep() call, -1 before the first
    lastVal,      \* what the last sweep() call returned
    lastCursor,   \* the cursor before the last sweep() call
    \* ---- pick_center_coords (CenterSpec) ----
    named_ll,     \* its argument named_ll
    threshold,    \* its argument threshold
    center,       \* its return value
    \* ---- pick_winner (WinnerSpec, Spec) ----
    all_data,     \* source name -> observation
    merge_config, \* the 'merge' section of sources.yaml
    hashOrder,    \* per run: the order in which list(latlong_names) iterates
    result,       \* what pick_winner returned
    \* ---- main (Spec) ----
    files,        \* source name -> the parsed lines of its file in data_dir
    tables,       \* source name -> RangeTable
    boundaries,   \* sorted(boundary_set)
    idx,          \* loop index of the sweep loop
    output,       \* segments appended by the sweep loop
    merged,       \* the coalesced table
    pc,           \* position in main
    run,          \* 1 for the first run of the merge, 2 for the second
    firstMerged,  \* the merged table of the first run
    observed      \* history: the all_data of each iteration of the sweep loop

vars == <<rt, rtPhase, rtOverlaps, lastPoint, lastVal, lastCursor,
          named_ll, threshold, center, all_data, merge_config, hashOrder,
          result, files, tables, boundaries, idx, output, merged, pc, run,
          firstMerged, observed>>

sweepVars  == <<rt, rtPhase, rtOverlaps, lastPoint, lastVal, lastCursor>>
centerVars == <<named_ll, threshold, center>>
winnerVars == <<all_data, merge_config, hashOrder, result>>
mainVars   == <<files, tables, boundaries, idx, output, merged, pc, run,
                firstMerged, observed>>

-----------------------------------------------------------------------------
(* Bounds *)

\* SweepSpec: points and interval ends are drawn from 0..SweepMaxAddr
SweepMaxAddr == 3
\* SweepSpec: at most this many add() calls
SweepMaxRecs == 2

-----------------------------------------------------------------------------
(* Python values *)

\* None, a country string (country-only loaders), a (country, lat, lon) tuple
\* (latlong loaders)
NoneV == [kind |-> "none", cc |-> "", lat |-> "", lon |-> ""]
StrV(c) == [kind |-> "str", cc |-> c, lat |-> "", lon |-> ""]
TupleV(c, la, lo) == [kind |-> "tuple", cc |-> c, lat |-> la, lon |-> lo]

IsNone(d) == d.kind = "none"
\* isinstance(data, tuple)
IsTuple(d) == d.kind = "tuple"
\* bool(data): None and '' are falsy, a 3-tuple is truthy
Truthy(d) == d.kind = "tuple" \/ (d.kind = "str" /\ d.cc # "")

\* str.__lt__ on the strings of the model: ordinal of each in code point order
StrRank(s) ==
    CASE s = ""    -> 0
      [] s = "0"   -> 1
      [] s = "3"   -> 2
      [] s = "3.0" -> 3
      [] s = "4"   -> 4
      [] s = "DE"  -> 5
      [] s = "FR"  -> 6
      [] s = "JP"  -> 7
      [] OTHER     -> 8

\* a < b for two payloads of one table (both str, or both tuple: tuples compare
\* element by element)
PayloadLess(a, b) ==
    IF a.cc # b.cc THEN StrRank(a.cc) < StrRank(b.cc)
    ELSE IF a.lat # b.lat THEN StrRank(a.lat) < StrRank(b.lat)
    ELSE StrRank(a.lon) < StrRank(b.lon)

-----------------------------------------------------------------------------
(* RangeTable *)

\* RangeTable.__init__
EmptyTable == [starts |-> <<>>, ends |-> <<>>, data |-> <<>>, cursor |-> 0]

\* RangeTable.add
TableAdd(t, start, end, value) ==
    [t EXCEPT !.starts = Append(@, start),
              !.ends   = Append(@, end),
              !.data   = Append(@, value)]

\* (start, end, data) tuple comparison used by sorted(zip(...))
RecLess(a, b) ==
    IF a[1] # b[1] THEN a[1] < b[1]
    ELSE IF a[2] # b[2] THEN a[2] < b[2]
    ELSE PayloadLess(a[3], b[3])

\* insert r into the sorted sequence s after every element that is not greater
\* (sorted() is stable)
RECURSIVE InsertSorted(_, _)
InsertSorted(s, r) ==
    IF s = <<>> THEN <<r>>
    ELSE IF RecLess(r, Head(s)) THEN <<r>> \o s
    ELSE <<Head(s)>> \o InsertSorted(Tail(s), r)

\* sorted(combined)
RECURSIVE SortedRecs(_)
SortedRecs(s) ==
    IF s = <<>> THEN <<>>
    ELSE InsertSorted(SortedRecs(SubSeq(s, 1, Len(s) - 1)), s[Len(s)])

\* zip(self.starts, self.ends, self.data)
ZipTable(t) == [i \in 1..Len(t.starts) |-> <<t.starts[i], t.ends[i], t.data[i]>>]

\* RangeTable.finalize: the table with its three lists replaced by the sorted
\* ones (nothing changes when the table is empty)
FinalizeTable(t) ==
    LET combined == SortedRecs(ZipTable(t))
    IN  [t EXCEPT !.starts = [i \in 1..Len(combined) |-> combined[i][1]],
                  !.ends   = [i \in 1..Len(combined) |-> combined[i][2]],
                  !.data   = [i \in 1..Len(combined) |-> combined[i][3]]]

\* the overlap count of finalize: adjacent pairs with starts[i] < ends[i-1]
CountOverlaps(t) ==
    Cardinality({i \in 2..Len(t.starts) : t.starts[i] < t.ends[i - 1]})

\* the while loop of sweep: the first c >= cursor with c = n or ends[c] > point
\* (c is 0-based as in the code; sequences are 1-based)
RECURSIVE SkipMut(_, _, _)
SkipMut(t, c, point) ==
    IF c < Len(t.starts) /\ t.ends[c + 1] < point
    THEN SkipMut(t, c + 1, point)
    ELSE c

RECURSIVE Skip(_, _, _)
Skip(t, c, point) ==
    IF c < Len(t.starts) /\ t.ends[c + 1] <= point
    THEN Skip(t, c + 1, point)
    ELSE c

\* RangeTable.sweep: the new cursor and the returned value
Sweep(t, point) ==
    LET c == Skip(t, t.cursor, point)
    IN  IF c < Len(t.starts) /\ t.starts[c + 1] <= point
        THEN [cursor |-> c, val |-> t.data[c + 1]]
        ELSE [cursor |-> c, val |-> NoneV]

\* the starts alone
TableStarts(t) == {t.starts[i] : i \in 1..Len(t.starts)}

\* RangeTable.boundaries
TableBoundaries(t) ==
    {t.starts[i] : i \in 1..Len(t.starts)} \cup {t.ends[i] : i \in 1..Len(t.ends)}

-----------------------------------------------------------------------------
(* SweepSpec: one RangeTable driven through add, finalize and sweep *)

SweepAddrs == 0..SweepMaxAddr
SweepPayloads == {StrV("DE"), StrV("FR")}

\* values the variables of the other specifications keep when unused
IdleCenter ==
    /\ named_ll = <<>>
    /\ threshold = 0
    /\ center = NoneV
IdleWinner ==
    /\ all_data = <<>>
    /\ merge_config = <<>>
    /\ hashOrder = <<>>
    /\ result = NoneV
IdleMain ==
    /\ files = <<>>
    /\ observed = <<>>
    /\ tables = <<>>
    /\ boundaries = <<>>
    /\ idx = 0
    /\ output = <<>>
    /\ merged = <<>>
    /\ pc = "idle"
    /\ run = 0
    /\ firstMerged = <<>>
IdleSweep ==
    /\ rt = EmptyTable
    /\ rtPhase = "idle"
    /\ rtOverlaps = 0
    /\ lastPoint = -1
    /\ lastVal = NoneV
    /\ lastCursor = 0

SweepInit ==
    /\ rt = EmptyTable
    /\ rtPhase = "adding"
    /\ rtOverlaps = 0
    /\ lastPoint = -1
    /\ lastVal = NoneV
    /\ lastCursor = 0
    /\ IdleCenter /\ IdleWinner /\ IdleMain

\* table.add(start, end, value), as the loaders call it before finalize
RtAdd ==
    /\ rtPhase = "adding"
    /\ Len(rt.starts) < SweepMaxRecs
    /\ \E start \in SweepAddrs, end \in SweepAddrs, value \in SweepPayloads :
           rt' = TableAdd(rt, start, end, value)
    /\ UNCHANGED <<rtPhase, rtOverlaps, lastPoint, lastVal, lastCursor>>
    /\ UNCHANGED <<centerVars, winnerVars, mainVars>>

\* table.finalize(name)
RtFinalize ==
    /\ rtPhase = "adding"
    /\ rt' = FinalizeTable(rt)
    /\ rtOverlaps' = CountOverlaps(rt')
    /\ rtPhase' = "finalized"
    /\ UNCHANGED <<lastPoint, lastVal, lastCursor>>
    /\ UNCHANGED <<centerVars, winnerVars, mainVars>>

\* table.sweep(point), the caller keeping the points non-decreasing
RtSweep ==
    /\ rtPhase = "finalized"
    /\ \E point \in SweepAddrs :
           /\ point >= lastPoint
           /\ rt' = [rt EXCEPT !.cursor = Sweep(rt, point).cursor]
           /\ lastVal' = Sweep(rt, point).val
           /\ lastPoint' = point
    /\ lastCursor' = rt.cursor
    /\ UNCHANGED <<rtPhase, rtOverlaps>>
    /\ UNCHANGED <<centerVars, winnerVars, mainVars>>

SweepNext == RtAdd \/ RtFinalize \/ RtSweep

SweepSpec == SweepInit /\ [][SweepNext]_vars

\* the records of t that contain point p (start <= p < end)
Containing(t, p) == {i \in 1..Len(t.starts) : t.starts[i] <= p /\ p < t.ends[i]}

\* no address lies in two records of t
NoOverlap(t) == \A p \in SweepAddrs : Cardinality(Containing(t, p)) <= 1

\* the payload of the record containing p, None when there is none
Enclosing(t, p) ==
    IF Containing(t, p) = {} THEN NoneV
    ELSE t.data[CHOOSE i \in Containing(t, p) : TRUE]

\* C1: on a finalized table without overlapping records, every sweep(point) of
\* a non-decreasing sequence of calls returns the payload of the record with
\* start <= point < end, None when there is none; the cursor never moves back
\* and never exceeds the number of records.
C1_SweepCorrect ==
    (rtPhase = "finalized" /\ lastPoint >= 0) =>
        /\ NoOverlap(rt) => lastVal = Enclosing(rt, lastPoint)
        /\ lastCursor <= rt.cursor
        /\ rt.cursor <= Len(rt.starts)

\* a sweep that skipped the first of two disjoint records and returned the
\* payload of the second
C1_Witness ==
    /\ rtPhase = "finalized"
    /\ NoOverlap(rt)
    /\ Len(rt.starts) = 2
    /\ lastPoint >= 0
    /\ lastCursor = 0
    /\ rt.cursor = 1
    /\ lastVal # NoneV
    /\ lastVal = rt.data[2]

-----------------------------------------------------------------------------
(* pick_center_coords *)

\* CenterSpec: named_ll has 1..CenterMaxEntries entries
CenterMaxEntries == 4

\* float(s) for the coordinate strings of the model.  Latitudes are drawn from
\* {0, 3} and longitudes from {0, 4}: every pairwise distance is 0, 3, 4 or 5,
\* so that the square root and the sums of distance() are exact in floats.
ToFloat(s) ==
    CASE s = "0"   -> 0
      [] s = "3"   -> 3
      [] s = "3.0" -> 3
      [] s = "4"   -> 4
      [] OTHER     -> 0

\* x ** 0.5 for a perfect square x
Sqrt(x) == CHOOSE r \in 0..x : r * r <= x /\ (r + 1) * (r + 1) > x

\* distance(lat1, lon1, lat2, lon2)
Distance(lat1, lon1, lat2, lon2) ==
    Sqrt((lat1 - lat2) * (lat1 - lat2) + (lon1 - lon2) * (lon1 - lon2))

\* coords = [(float(d[1]), float(d[2])) for _, d in named_ll]
CoordsOf(nll) ==
    [i \in 1..Len(nll) |-> <<ToFloat(nll[i].data.lat), ToFloat(nll[i].data.lon)>>]

Max(a, b) == IF a >= b THEN a ELSE b

\* the double loop computing max_dist, pairs (a, b) with a < b, from pair
\* (a, b) on with max_dist the value so far
RECURSIVE MaxDistLoop(_, _, _, _)
MaxDistLoop(coords, a, b, max_dist) ==
    IF a > Len(coords) THEN max_dist
    ELSE IF b > Len(coords) THEN MaxDistLoop(coords, a + 1, a + 2, max_dist)
    ELSE MaxDistLoop(coords, a, b + 1,
             Max(max_dist,
                 Distance(coords[a][1], coords[a][2], coords[b][1], coords[b][2])))

\* sum(distance(coords[idx], coords[j]) for j in range(len(coords)) if j != idx),
\* from j on
RECURSIVE TotalFrom(_, _, _)
TotalFrom(coords, i, j) ==
    IF j > Len(coords) THEN 0
    ELSE (IF j # i
          THEN Distance(coords[i][1], coords[i][2], coords[j][1], coords[j][2])
          ELSE 0) + TotalFrom(coords, i, j + 1)

\* float('inf'): every total is >= 0
Inf == -1

\* the loop choosing best: only a strictly smaller total replaces it
RECURSIVE BestLoop(_, _, _, _)
BestLoop(coords, i, min_total, best) ==
    IF i > Len(coords) THEN best
    ELSE LET total == TotalFrom(coords, i, 1)
         IN  IF min_total = Inf \/ total < min_total
             THEN BestLoop(coords, i + 1, total, i)
             ELSE BestLoop(coords, i + 1, min_total, best)

\* (data[1], data[2], name) of an entry
EntryCoords(e) == [lat |-> e.data.lat, lon |-> e.data.lon, src |-> e.name]

PickCenterCoordsMut(nll, thr) ==
    IF Len(nll) < 3 THEN EntryCoords(nll[1])
    ELSE LET coords == CoordsOf(nll)
         IN  IF MaxDistLoop(coords, 1, 2, 0) < thr
             THEN EntryCoords(nll[1])
             ELSE EntryCoords(nll[BestLoop(coords, 1, Inf, 1)])

\* pick_center_coords(named_ll, threshold)
PickCenterCoords(nll, thr) ==
    IF Len(nll) < 3 THEN EntryCoords(nll[1])
    ELSE LET coords == CoordsOf(nll)
         IN  IF MaxDistLoop(coords, 1, 2, 0) <= thr
             THEN EntryCoords(nll[1])
             ELSE EntryCoords(nll[BestLoop(coords, 1, Inf, 1)])

-----------------------------------------------------------------------------
(* CenterSpec: pick_center_coords on bounded inputs *)

\* the i-th source name
SrcName(i) ==
    CASE i = 1 -> "A" [] i = 2 -> "B" [] i = 3 -> "C" [] i = 4 -> "D"
      [] i = 5 -> "E" [] OTHER -> "F"

LatStrs == {"0", "3", "3.0"}
LonStrs == {"0", "4"}
CenterThresholds == {2, 4, 5}

NoCenter == [lat |-> "", lon |-> "", src |-> ""]

CenterInit ==
    /\ \E n \in 1..CenterMaxEntries :
           \E f \in [1..n -> LatStrs \X LonStrs] :
               named_ll = [i \in 1..n |->
                              [name |-> SrcName(i),
                               data |-> TupleV("DE", f[i][1], f[i][2])]]
    /\ threshold \in CenterThresholds
    /\ center = NoCenter
    /\ IdleSweep /\ IdleWinner /\ IdleMain

CallPickCenter ==
    /\ center = NoCenter
    /\ center' = PickCenterCoords(named_ll, threshold)
    /\ UNCHANGED <<named_ll, threshold>>
    /\ UNCHANGED <<sweepVars, winnerVars, mainVars>>

CenterNext == CallPickCenter

CenterSpec == CenterInit /\ [][CenterNext]_vars

\* planar distance between entries i and j
EntryDist(nll, i, j) ==
    Distance(ToFloat(nll[i].data.lat), ToFloat(nll[i].data.lon),
             ToFloat(nll[j].data.lat), ToFloat(nll[j].data.lon))

\* the maximum pairwise distance is <= d
SpreadWithin(nll, d) == \A i, j \in 1..Len(nll) : EntryDist(nll, i, j) <= d

\* sum of the distances from entry i to all other entries
RECURSIVE SumDist(_, _, _)
SumDist(nll, i, js) ==
    IF js = {} THEN 0
    ELSE LET j == CHOOSE x \in js : TRUE
         IN  EntryDist(nll, i, j) + SumDist(nll, i, js \ {j})

TotalDist(nll, i) == SumDist(nll, i, (1..Len(nll)) \ {i})

C10_WitnessBoundary ==
    /\ center # NoCenter
    /\ Len(named_ll) >= 3
    /\ \E i, j \in 1..Len(named_ll) : EntryDist(named_ll, i, j) = threshold
    /\ SpreadWithin(named_ll, threshold)
    /\ center = EntryCoords(named_ll[1])

-----------------------------------------------------------------------------
(* pick_winner *)

\* sources.yaml: the names under 'latlong' and under 'country'.  main builds
\* all_data in the order of all_tables_named: the latlong sources, then the
\* country sources, each group in file order.
LatLongNames == {"A", "B", "C"}
CountryNames == {"X", "Y", "Z"}
SourceOrder == <<"A", "B", "C", "X", "Y", "Z">>

\* dict.get(key, default)
Get(d, key, default) == IF key \in DOMAIN d THEN d[key] ELSE default

\* all_data.get(name)
DataGet(ad, name) == Get(ad, name, NoneV)

\* [x for x in s if Keep(x)]
RECURSIVE Filter(_, _)
Filter(s, keep) ==
    IF s = <<>> THEN <<>>
    ELSE (IF Head(s) \in keep THEN <<Head(s)>> ELSE <<>>) \o Filter(Tail(s), keep)

Range(s) == {s[i] : i \in 1..Len(s)}

\* countries: the names with data (data is not None), each mapped to data[0]
\* for a tuple and to data itself for a string; keys in the order of all_data
CountryKeys(ad) == Filter(SourceOrder, {n \in DOMAIN ad : ~ IsNone(ad[n])})
CountryOf(ad, name) == ad[name].cc

\* votes = Counter(all_country_list): the count of a country
Votes(ad, c) == Cardinality({n \in Range(CountryKeys(ad)) : CountryOf(ad, n) = c})

\* the keys of the Counter in insertion order: each country at its first
\* occurrence in all_country_list
RECURSIVE Distinct(_, _)
Distinct(s, seen) ==
    IF s = <<>> THEN <<>>
    ELSE IF Head(s) \in seen THEN Distinct(Tail(s), seen)
    ELSE <<Head(s)>> \o Distinct(Tail(s), seen \cup {Head(s)})

VoteKeys(ad) ==
    LET keys == CountryKeys(ad)
    IN  Distinct([i \in 1..Len(keys) |-> CountryOf(ad, keys[i])], {})

\* sorted(items, key=count, reverse=True): stable, so that countries with the
\* same count keep their insertion order
RECURSIVE InsertByCount(_, _, _)
InsertByCount(ad, s, c) ==
    IF s = <<>> THEN <<c>>
    ELSE IF Votes(ad, c) > Votes(ad, Head(s)) THEN <<c>> \o s
    ELSE <<Head(s)>> \o InsertByCount(ad, Tail(s), c)

RECURSIVE SortByCount(_, _)
SortByCount(ad, s) ==
    IF s = <<>> THEN <<>>
    ELSE InsertByCount(ad, SortByCount(ad, SubSeq(s, 1, Len(s) - 1)), s[Len(s)])

RECURSIVE ReverseSeq(_)
ReverseSeq(s) == IF s = <<>> THEN <<>> ELSE ReverseSeq(Tail(s)) \o <<Head(s)>>

MostCommonMut(ad) == ReverseSeq(SortByCount(ad, VoteKeys(ad)))

\* votes.most_common(): the countries, highest count first.
\* votes.most_common(1)[0] is its first element (heapq.nlargest(1, ...) is
\* max(), which returns the first maximal item).
MostCommon(ad) == SortByCount(ad, VoteKeys(ad))

\* coord_priority = merge_config.get('coord_priority', list(latlong_names));
\* order is the order in which the set latlong_names iterates in this run
CoordPriority(cfg, order) == Get(cfg, "coord_priority", order)

\* coord_sources: the names of coord_priority whose data is a tuple, in order
\* (the entry (data[0], data[1], data[2], name) is read off all_data)
CoordSources(ad, cfg, order) ==
    Filter(CoordPriority(cfg, order), {n \in DOMAIN ad : IsTuple(ad[n])})

NoCoords == [lat |-> "", lon |-> "", src |-> ""]

\* find_coords(country): the first coord source reporting country, or None
FindCoords(ad, cfg, order, country) ==
    LET cs == CoordSources(ad, cfg, order)
        hit == {i \in 1..Len(cs) : ad[cs[i]].cc = country}
    IN  IF hit = {} THEN NoCoords
        ELSE LET i == CHOOSE k \in hit : \A m \in hit : k <= m
             IN  [lat |-> ad[cs[i]].lat, lon |-> ad[cs[i]].lon, src |-> cs[i]]

\* available_ll: (name, all_data[name]) for the names of coord_priority that
\* are latlong names with truthy data
AvailableLL(ad, lln, cfg, order) ==
    LET names == Filter(CoordPriority(cfg, order),
                        {n \in lln : Truthy(DataGet(ad, n))})
    IN  [i \in 1..Len(names) |-> [name |-> names[i], data |-> ad[names[i]]]]

\* what pick_winner returns: (country, lat, lon, label).  The label is kept
\* in parts: path is 'unanimous', 'override', 'no_coords', 'vote' or
\* 'no_match'; rule is the match list an override label joins with '+'; src
\* is the source name after '->'.
Winner(country, lat, lon, path, rule, src) ==
    [country |-> country, lat |-> lat, lon |-> lon,
     path |-> path, rule |-> rule, src |-> src]
\* pick_winner returning None
NoWinner == Winner("", "", "", "none", <<>>, "")

\* the unanimous step: all available latlong sources agree on the country
Unanimous(ad, lln, cfg, order) ==
    LET available_ll == AvailableLL(ad, lln, cfg, order)
        ll_country_list == [i \in 1..Len(available_ll) |-> available_ll[i].data.cc]
    IN  IF Len(available_ll) >= 2 /\ Cardinality(Range(ll_country_list)) = 1
        THEN LET c == PickCenterCoords(available_ll,
                                       Get(cfg, "coord_spread_threshold", 2))
             IN  Winner(ll_country_list[1], c.lat, c.lon, "unanimous", <<>>, c.src)
        ELSE NoWinner

OverrideRuleMut(ad, cfg, order, rule) ==
    LET match_names == rule.match
        all_present == \A i \in 1..Len(match_names) :
                           ~ IsNone(DataGet(ad, match_names[i]))
    IN  IF ~ all_present \/ match_names = <<>> THEN NoWinner
        ELSE LET c == CountryOf(ad, match_names[1])
                 coords == FindCoords(ad, cfg, order, c)
             IN  IF coords # NoCoords
                 THEN Winner(c, coords.lat, coords.lon, "override", match_names,
                             coords.src)
                 ELSE NoWinner

\* one override rule: it matches when every source of rule['match'] is in
\* countries and they report one country, and decides when find_coords finds
\* coordinates for that country
OverrideRule(ad, cfg, order, rule) ==
    LET match_names == rule.match
        all_present == \A i \in 1..Len(match_names) :
                           ~ IsNone(DataGet(ad, match_names[i]))
    IN  IF ~ all_present THEN NoWinner
        ELSE LET match_countries ==
                     [i \in 1..Len(match_names) |-> CountryOf(ad, match_names[i])]
             IN  IF Cardinality(Range(match_countries)) # 1 THEN NoWinner
                 ELSE LET coords == FindCoords(ad, cfg, order, match_countries[1])
                      IN  IF coords # NoCoords
                          THEN Winner(match_countries[1], coords.lat, coords.lon,
                                      "override", match_names, coords.src)
                          ELSE NoWinner

\* the loop over merge_config.get('overrides', []), from rule i on
RECURSIVE Overrides(_, _, _, _)
Overrides(ad, cfg, order, i) ==
    LET rules == Get(cfg, "overrides", <<>>)
    IN  IF i > Len(rules) THEN NoWinner
        ELSE LET w == OverrideRule(ad, cfg, order, rules[i])
             IN  IF w # NoWinner THEN w ELSE Overrides(ad, cfg, order, i + 1)

RECURSIVE TieBreakMut(_, _, _, _, _)
TieBreakMut(ad, cfg, order, tied, i) ==
    LET vote_priority == Get(cfg, "vote_priority", <<>>)
    IN  IF i > Len(vote_priority) THEN NoWinner
        ELSE LET prio_name == vote_priority[i]
             IN  IF /\ ~ IsNone(DataGet(ad, prio_name))
                    /\ FindCoords(ad, cfg, order, CountryOf(ad, prio_name)) # NoCoords
                 THEN LET coords == FindCoords(ad, cfg, order, CountryOf(ad, prio_name))
                      IN  Winner(CountryOf(ad, prio_name), coords.lat, coords.lon,
                                 "vote", <<>>, coords.src)
                 ELSE TieBreakMut(ad, cfg, order, tied, i + 1)

\* the tie loop over vote_priority, from entry i on
RECURSIVE TieBreak(_, _, _, _, _)
TieBreak(ad, cfg, order, tied, i) ==
    LET vote_priority == Get(cfg, "vote_priority", <<>>)
    IN  IF i > Len(vote_priority) THEN NoWinner
        ELSE LET prio_name == vote_priority[i]
             IN  IF /\ ~ IsNone(DataGet(ad, prio_name))
                    /\ CountryOf(ad, prio_name) \in tied
                    /\ FindCoords(ad, cfg, order, CountryOf(ad, prio_name)) # NoCoords
                 THEN LET coords == FindCoords(ad, cfg, order, CountryOf(ad, prio_name))
                      IN  Winner(CountryOf(ad, prio_name), coords.lat, coords.lon,
                                 "vote", <<>>, coords.src)
                 ELSE TieBreak(ad, cfg, order, tied, i + 1)

RECURSIVE VoteWalkMut(_, _, _, _, _)
VoteWalkMut(ad, cfg, order, top, i) ==
    IF i > Len(top) THEN NoWinner
    ELSE LET coords == FindCoords(ad, cfg, order, top[Len(top) + 1 - i])
         IN  IF coords # NoCoords
             THEN Winner(top[Len(top) + 1 - i], coords.lat, coords.lon, "vote",
                         <<>>, coords.src)
             ELSE VoteWalkMut(ad, cfg, order, top, i + 1)

\* the walk over top, from entry i on
RECURSIVE VoteWalk(_, _, _, _, _)
VoteWalk(ad, cfg, order, top, i) ==
    IF i > Len(top) THEN NoWinner
    ELSE LET coords == FindCoords(ad, cfg, order, top[i])
         IN  IF coords # NoCoords
             THEN Winner(top[i], coords.lat, coords.lon, "vote", <<>>, coords.src)
             ELSE VoteWalk(ad, cfg, order, top, i + 1)

\* the vote: no_coords, the tie loop, the walk, no_match
Vote(ad, cfg, order) ==
    LET top == MostCommon(ad)
    IN  IF CoordSources(ad, cfg, order) = <<>>
        THEN Winner(top[1], "0", "0", "no_coords", <<>>, "")
        ELSE LET tied == {c \in Range(top) : Votes(ad, c) = Votes(ad, top[1])}
                 t == IF Len(top) >= 2 /\ Votes(ad, top[1]) = Votes(ad, top[2])
                      THEN TieBreak(ad, cfg, order, tied, 1)
                      ELSE NoWinner
             IN  IF t # NoWinner THEN t
                 ELSE LET w == VoteWalk(ad, cfg, order, top, 1)
                      IN  IF w # NoWinner THEN w
                          ELSE Winner(top[1], "0", "0", "no_match", <<>>, "")

\* pick_winner(all_data, latlong_names, merge_config); order is the iteration
\* order of the set latlong_names
PickWinner(ad, lln, cfg, order) ==
    IF CountryKeys(ad) = <<>> THEN NoWinner
    ELSE LET u == Unanimous(ad, lln, cfg, order)
         IN  IF u # NoWinner THEN u
             ELSE LET o == Overrides(ad, cfg, order, 1)
                  IN  IF o # NoWinner THEN o
                      ELSE Vote(ad, cfg, order)

-----------------------------------------------------------------------------
(* WinnerSpec: pick_winner on bounded observations and configurations *)

\* the countries the latlong sources and the country sources report
Countries == {"DE", "FR", "JP"}
CountryOnlyCountries == {"DE", "FR"}

\* the coordinates each latlong source reports in WinnerSpec
SrcLat(n) == CASE n = "A" -> "0" [] n = "B" -> "3" [] OTHER -> "3.0"
SrcLon(n) == CASE n = "A" -> "0" [] n = "B" -> "0" [] OTHER -> "4"

\* what a source's sweep can return: None or a payload of its loader's shape
Observations(n) ==
    {NoneV} \cup (IF n \in LatLongNames
                  THEN {TupleV(c, SrcLat(n), SrcLon(n)) : c \in Countries}
                  ELSE {StrV(c) : c \in CountryOnlyCountries})

AllDatas == {ad \in [LatLongNames \cup CountryNames -> UNION {Observations(n) : n \in LatLongNames \cup CountryNames}] :
                \A n \in DOMAIN ad : ad[n] \in Observations(n)}

\* the orders in which a set of names can iterate
Orders(names) ==
    {o \in [1..Cardinality(names) -> names] : Range(o) = names}

\* a key of the configuration that is present with value v
Key(k, v) == k :> v
\* an omitted key
Omitted == [k \in {} |-> 0]

CoordPriorityChoices ==
    {Omitted} \cup {Key("coord_priority", v) :
                       v \in {<<"A", "B", "C">>, <<"C", "A", "B">>, <<"B", "A">>}}
VotePriorityChoices ==
    {Omitted} \cup {Key("vote_priority", v) :
                       v \in {<<"X", "A">>, <<"C", "Y", "B">>}}
ThresholdChoices ==
    {Omitted, Key("coord_spread_threshold", 5)}
OverrideChoices ==
    {Omitted} \cup {Key("overrides", v) :
                       v \in {<<[match |-> <<"X", "Y">>]>>,
                              <<[match |-> <<"A", "X">>], [match |-> <<"X", "Y">>]>>,
                              <<[match |-> <<"X", "Y">>], [match |-> <<"B">>]>>}}

MergeConfigs ==
    {cp @@ vp @@ th @@ ov : cp \in CoordPriorityChoices, vp \in VotePriorityChoices,
                            th \in ThresholdChoices, ov \in OverrideChoices}

\* the first order of a set of names: stands for the iteration order when no
\* decision reads it
SomeOrder(names) == CHOOSE o \in Orders(names) : TRUE

WinnerInit ==
    /\ all_data \in AllDatas
    /\ merge_config \in MergeConfigs
    /\ hashOrder \in (IF "coord_priority" \in DOMAIN merge_config
                       THEN {SomeOrder(LatLongNames)}
                       ELSE Orders(LatLongNames))
    /\ result = NoWinner
    /\ pc = "call"
    /\ IdleSweep /\ IdleCenter
    /\ files = <<>> /\ tables = <<>> /\ boundaries = <<>> /\ idx = 0
    /\ output = <<>> /\ merged = <<>> /\ run = 0 /\ firstMerged = <<>>
    /\ observed = <<>>

CallPickWinner ==
    /\ pc = "call"
    /\ result' = PickWinner(all_data, LatLongNames, merge_config, hashOrder)
    /\ pc' = "returned"
    /\ UNCHANGED <<all_data, merge_config, hashOrder>>
    /\ UNCHANGED <<sweepVars, centerVars>>
    /\ UNCHANGED <<files, tables, boundaries, idx, output, merged, run,
                   firstMerged, observed>>

WinnerNext == CallPickWinner

WinnerSpec == WinnerInit /\ [][WinnerNext]_vars

-----------------------------------------------------------------------------
(* Properties of pick_winner, stated on its arguments and its result *)

Returned == pc = "returned"

\* the sources with a present observation
Present == {n \in DOMAIN all_data : ~ IsNone(all_data[n])}
\* the latlong-role sources with a present observation
PresentLL == Present \cap LatLongNames

\* the configured priority list, or the iteration order of the set of latlong
\* names when the configuration omits it
Priority == CoordPriority(merge_config, hashOrder)

\* the positions of the priority list that name a source reporting
\* coordinates for country c
CoordPositions(c) ==
    {i \in 1..Len(Priority) :
        /\ IsTuple(DataGet(all_data, Priority[i]))
        /\ all_data[Priority[i]].cc = c}
HasCoords(c) == CoordPositions(c) # {}
\* the first source of the priority list reporting coordinates for c
FirstCoordSource(c) ==
    Priority[CHOOSE i \in CoordPositions(c) : \A j \in CoordPositions(c) : i <= j]

\* the result carries country c with the coordinates of source n
ResultFrom(c, n) ==
    /\ result.country = c
    /\ result.lat = all_data[n].lat
    /\ result.lon = all_data[n].lon
    /\ result.src = n

\* the entries of the priority list that are latlong sources with data
AvailablePositions ==
    {i \in 1..Len(Priority) : Priority[i] \in PresentLL}
\* step 2 as the code takes it: at least two such entries, one country
UnanimousStep ==
    /\ Cardinality(AvailablePositions) >= 2
    /\ \A i, j \in AvailablePositions :
           all_data[Priority[i]].cc = all_data[Priority[j]].cc

Rules == Get(merge_config, "overrides", <<>>)
\* rule i has every listed source present and all report one country
RuleMatches(i) ==
    /\ Rules[i].match # <<>>
    /\ Range(Rules[i].match) \subseteq Present
    /\ \A a, b \in Range(Rules[i].match) : all_data[a].cc = all_data[b].cc
RuleCountry(i) == all_data[Rules[i].match[1]].cc
MatchingRules == {i \in 1..Len(Rules) : RuleMatches(i)}
\* the matching rules for whose country a coordinate source exists
DecidingRules == {i \in MatchingRules : HasCoords(RuleCountry(i))}
First(S) == CHOOSE i \in S : \A j \in S : i <= j

\* the vote count of country c over all present sources
Count(c) == Cardinality({n \in Present : all_data[n].cc = c})
Voted == {all_data[n].cc : n \in Present}
TopVoted == {c \in Voted : \A d \in Voted : Count(d) <= Count(c)}

\* C5: at least two latlong-role sources are present and all present
\* latlong-role sources report one country => pick_winner returns that
\* country, labelled unanimous, with the coordinates of one of them, whatever
\* the override rules and the country-only sources say.
C5_Unanimous ==
    (/\ Returned
     /\ Cardinality(PresentLL) >= 2
     /\ \A a, b \in PresentLL : all_data[a].cc = all_data[b].cc)
    => /\ result.path = "unanimous"
       /\ \E n \in PresentLL : ResultFrom(all_data[n].cc, n)

C7_NoCoords ==
    (Returned /\ Present # {} /\ PresentLL = {})
    => /\ result.country \in TopVoted
       /\ result.lat = "0"
       /\ result.lon = "0"
       /\ result.path = "no_coords"

\* no_coords returned for the country with two of three votes, which is not
\* the first one counted
C7_Witness ==
    /\ Returned
    /\ PresentLL = {}
    /\ Cardinality(Present) = 3
    /\ result.path = "no_coords"
    /\ Count(result.country) = 2
    /\ result.country # all_data["X"].cc

\* no_coords returned although an override rule matches
C7_WitnessOverride ==
    /\ Returned
    /\ PresentLL = {}
    /\ MatchingRules # {}
    /\ result.path = "no_coords"

\* no earlier step decided: not step 2, no override rule, and some coordinate
\* source has data
AnyCoordSource ==
    \E i \in 1..Len(Priority) : IsTuple(DataGet(all_data, Priority[i]))
VoteReached ==
    /\ Returned
    /\ ~ UnanimousStep
    /\ DecidingRules = {}
    /\ AnyCoordSource

VotePriority == Get(merge_config, "vote_priority", <<>>)
\* the positions of vote_priority naming a present source whose country is
\* tied for the top count and has a coordinate source
TiePositions ==
    {i \in 1..Len(VotePriority) :
        /\ VotePriority[i] \in Present
        /\ all_data[VotePriority[i]].cc \in TopVoted
        /\ HasCoords(all_data[VotePriority[i]].cc)}
TieStep == Cardinality(TopVoted) >= 2 /\ TiePositions # {}

\* C8: no earlier step decided, the two highest counts are equal and some
\* source of vote_priority qualifies => the result is the country of the
\* first qualifying source, with the coordinates of the first source of
\* coord_priority reporting it, labelled vote.
C8_TieBreak ==
    (VoteReached /\ TieStep)
    => LET c == all_data[VotePriority[First(TiePositions)]].cc
       IN  /\ result.path = "vote"
           /\ ResultFrom(c, FirstCoordSource(c))

\* the tie was broken by the second entry of vote_priority, in favour of a
\* country that is not the first of the vote ranking
C8_Witness ==
    /\ VoteReached
    /\ TieStep
    /\ First(TiePositions) = 2
    /\ result.path = "vote"
    /\ result.country # MostCommon(all_data)[1]

\* C9: no earlier step decided (the tie step included) => the result is a
\* country reported by a coordinate source such that no country with
\* strictly more votes is, with the coordinates of the first source of
\* coord_priority reporting it, labelled vote; were no voted country reported
\* by a coordinate source, the result would be a top-voted country with
\* ('0', '0'), labelled no_match.
C9_VoteWalk ==
    (VoteReached /\ ~ TieStep)
    => IF \E c \in Voted : HasCoords(c)
       THEN /\ result.path = "vote"
            /\ HasCoords(result.country)
            /\ \A c \in Voted : HasCoords(c) => Count(c) <= Count(result.country)
            /\ ResultFrom(result.country, FirstCoordSource(result.country))
       ELSE /\ result.path = "no_match"
            /\ result.country \in TopVoted
            /\ result.lat = "0"
            /\ result.lon = "0"

\* the walk passed over the top-voted country, which no coordinate source
\* reports, and returned a country with fewer votes
\* the no_match return is never taken: a coordinate source is a present source,
\* so its country is always among the voted ones
NoMatchNeverReturned == result.path # "no_match"

C9_Witness ==
    /\ VoteReached
    /\ ~ TieStep
    /\ result.path = "vote"
    /\ result.country \notin TopVoted
    /\ \A c \in TopVoted : ~ HasCoords(c)

-----------------------------------------------------------------------------
(* main *)

\* Spec: addresses are 0..MaxAddr
MaxAddr == 2
\* Spec: at most this many lines in all source files together
MaxRecs == 2

\* sources.yaml of Spec: two latlong sources and one country source
MainLatLong == {"A", "B"}
MainCountry == {"X"}
MainNames == MainLatLong \cup MainCountry
\* load_latlong_tsv / load_country_tsv: one add(start, end + 1, payload) per
\* parsed line, then finalize
RECURSIVE AddLines(_, _)
AddLines(t, lines) ==
    IF lines = <<>> THEN t
    ELSE AddLines(TableAdd(t, Head(lines)[1], Head(lines)[2] + 1, Head(lines)[3]),
                  Tail(lines))

LoadTable(lines) == FinalizeTable(AddLines(EmptyTable, lines))

\* sorted(boundary_set)
RECURSIVE SortedSet(_)
SortedSet(S) ==
    IF S = {} THEN <<>>
    ELSE LET m == CHOOSE x \in S : \A y \in S : x <= y
         IN  <<m>> \o SortedSet(S \ {m})

Boundaries(ts) == SortedSet(UNION {TableBoundaries(ts[n]) : n \in DOMAIN ts})

\* one output tuple (start, end, country, lat, lon)
Segment(start, end, w) ==
    [start |-> start, end |-> end, country |-> w.country, lat |-> w.lat, lon |-> w.lon]

\* entry[2:]
Value(e) == <<e.country, e.lat, e.lon>>

CoalesceNever(out, acc) == acc \o out

RECURSIVE CoalesceByCountry(_, _)
CoalesceByCountry(out, acc) ==
    IF out = <<>> THEN acc
    ELSE LET entry == Head(out)
         IN  IF /\ acc # <<>>
                /\ acc[Len(acc)].country = entry.country
                /\ acc[Len(acc)].end + 1 = entry.start
             THEN CoalesceByCountry(Tail(out),
                      [acc EXCEPT ![Len(acc)] = [entry EXCEPT !.start = acc[Len(acc)].start]])
             ELSE CoalesceByCountry(Tail(out), Append(acc, entry))

\* the loop merging consecutive entries: out is what is left of output, acc
\* is merged so far
RECURSIVE Coalesce(_, _)
Coalesce(out, acc) ==
    IF out = <<>> THEN acc
    ELSE LET entry == Head(out)
         IN  IF /\ acc # <<>>
                /\ Value(acc[Len(acc)]) = Value(entry)
                /\ acc[Len(acc)].end + 1 = entry.start
             THEN Coalesce(Tail(out),
                      [acc EXCEPT ![Len(acc)] = [entry EXCEPT !.start = acc[Len(acc)].start]])
             ELSE Coalesce(Tail(out), Append(acc, entry))

-----------------------------------------------------------------------------
(* Spec: main run twice on the same files with the same sources.yaml *)

MainCountries == {"DE", "FR"}

\* the payload a parsed line of source n carries for country c
LinePayload(n, c) ==
    IF n \in MainLatLong THEN TupleV(c, SrcLat(n), "0") ELSE StrV(c)

\* the parsed lines a file can hold, tagged with the source: (source, start,
\* end, payload) with start <= end, end inclusive as in the files
TaggedLines ==
    {<<n, st, en, LinePayload(n, c)>> :
        n \in MainNames, st \in 0..MaxAddr, en \in 0..MaxAddr, c \in MainCountries}

\* the subsets of S with at most k elements
RECURSIVE KSubsets(_, _)
KSubsets(S, k) ==
    IF k = 0 THEN {{}}
    ELSE LET smaller == KSubsets(S, k - 1)
         IN  smaller \cup {p \cup {x} : p \in smaller, x \in S}

\* the lines of a file in some order
RECURSIVE SetToSeq(_)
SetToSeq(S) ==
    IF S = {} THEN <<>>
    ELSE LET x == CHOOSE y \in S : TRUE
         IN  SetToSeq(S \ {x}) \o <<x>>

FileOf(L, n) ==
    LET lines == SetToSeq({l \in L : l[1] = n})
    IN  [i \in 1..Len(lines) |-> <<lines[i][2], lines[i][3], lines[i][4]>>]

MainConfigs == {Omitted, Key("coord_priority", <<"B", "A">>)}

\* the orders list(latlong_names) can have in one run: any, since the hash of
\* a str is salted per process; fixed when no decision reads it
HashOrders(cfg) ==
    IF "coord_priority" \in DOMAIN cfg
    THEN {SomeOrder(MainLatLong)}
    ELSE Orders(MainLatLong)

\* the state of a run before anything is loaded
RunStart ==
    /\ tables = [n \in MainNames |-> EmptyTable]
    /\ boundaries = <<>>
    /\ idx = 0
    /\ output = <<>>
    /\ merged = <<>>
    /\ observed = <<>>
    /\ all_data = [n \in MainNames |-> NoneV]
    /\ result = NoWinner
    /\ pc = "load"

Init ==
    /\ \E L \in KSubsets({l \in TaggedLines : l[2] <= l[3]}, MaxRecs) :
           files = [n \in MainNames |-> FileOf(L, n)]
    /\ merge_config \in MainConfigs
    /\ hashOrder \in HashOrders(merge_config)
    /\ run = 1
    /\ firstMerged = <<>>
    /\ RunStart
    /\ IdleSweep /\ IdleCenter

\* main: loading the latlong and the country sources
LoadSources ==
    /\ pc = "load"
    /\ tables' = [n \in MainNames |-> LoadTable(files[n])]
    /\ pc' = "boundaries"
    /\ UNCHANGED <<files, boundaries, idx, output, merged, run, firstMerged, observed>>
    /\ UNCHANGED <<sweepVars, centerVars, winnerVars>>

\* main: collecting the boundary points
FindBoundaries ==
    /\ pc = "boundaries"
    /\ boundaries' = Boundaries(tables)
    /\ idx' = 0
    /\ output' = <<>>
    /\ pc' = "sweep"
    /\ UNCHANGED <<files, tables, merged, run, firstMerged, observed>>
    /\ UNCHANGED <<sweepVars, centerVars, winnerVars>>

\* main: one iteration of the loop over range(total)
SweepSegment ==
    /\ pc = "sweep"
    /\ idx < Len(boundaries) - 1
    /\ LET start == boundaries[idx + 1]
           end == boundaries[idx + 2] - 1
           sw == [n \in MainNames |-> Sweep(tables[n], start)]
           data == [n \in MainNames |-> sw[n].val]
           any_data == \E n \in MainNames : ~ IsNone(data[n])
           w == PickWinner(data, MainLatLong, merge_config, hashOrder)
       IN  /\ tables' = [n \in MainNames |-> [tables[n] EXCEPT !.cursor = sw[n].cursor]]
           /\ all_data' = data
           /\ observed' = Append(observed, data)
           /\ IF any_data
              THEN /\ result' = w
                   /\ output' = IF w # NoWinner
                                 THEN Append(output, Segment(start, end, w))
                                 ELSE output
              ELSE UNCHANGED <<result, output>>
    /\ idx' = idx + 1
    /\ UNCHANGED <<files, boundaries, merged, pc, run, firstMerged>>
    /\ UNCHANGED <<sweepVars, centerVars, merge_config, hashOrder>>

\* main: merging consecutive entries once the loop is over
MergeConsecutive ==
    /\ pc = "sweep"
    /\ idx >= Len(boundaries) - 1
    /\ merged' = Coalesce(output, <<>>)
    /\ pc' = "done"
    /\ UNCHANGED <<files, tables, boundaries, idx, output, run, firstMerged, observed>>
    /\ UNCHANGED <<sweepVars, centerVars, winnerVars>>

\* merge.py is started again with the same arguments
Rerun ==
    /\ pc = "done"
    /\ run = 1
    /\ run' = 2
    /\ firstMerged' = merged
    /\ hashOrder' \in HashOrders(merge_config)
    /\ tables' = [n \in MainNames |-> EmptyTable]
    /\ boundaries' = <<>>
    /\ idx' = 0
    /\ output' = <<>>
    /\ merged' = <<>>
    /\ observed' = <<>>
    /\ all_data' = [n \in MainNames |-> NoneV]
    /\ result' = NoWinner
    /\ pc' = "load"
    /\ UNCHANGED <<files, merge_config>>
    /\ UNCHANGED <<sweepVars, centerVars>>

Next == LoadSources \/ FindBoundaries \/ SweepSegment \/ MergeConsecutive \/ Rerun

Spec == Init /\ [][Next]_vars

-----------------------------------------------------------------------------
(* Properties of main *)

Done == pc = "done"

\* C2: a second run with the same sources.yaml and the same files produces
\* the merged table of the first run.
C2_Determinism == (Done /\ run = 2) => merged = firstMerged

\* the candidate segments of the run: i-th is [boundaries[i], boundaries[i+1]-1]
Candidates == 1..(Len(boundaries) - 1)
\* some source's sweep at the start of candidate segment i returned data
AnyData(i) == \E n \in MainNames : ~ IsNone(observed[i][n])
\* the (country, lat, lon) resolved for candidate segment i
Resolved(i) ==
    LET w == PickWinner(observed[i], MainLatLong, merge_config, hashOrder)
    IN  <<w.country, w.lat, w.lon>>
\* address p lies in a segment of the merged table carrying value v
Covered(p, v) ==
    \E k \in 1..Len(merged) :
        merged[k].start <= p /\ p <= merged[k].end /\ Value(merged[k]) = v

\* C3: every address of every candidate segment with at least one present
\* observation lies in a segment of the merged table that carries the value
\* resolved for that candidate segment.
C3_Coverage ==
    Done =>
        /\ Len(observed) = Len(boundaries) - 1 \/ boundaries = <<>>
        /\ \A i \in Candidates :
               AnyData(i) =>
                   \A p \in boundaries[i]..(boundaries[i + 1] - 1) :
                       Covered(p, Resolved(i))

\* a candidate segment with data sits inside a longer merged segment that
\* carries its value
C3_Witness ==
    /\ Done
    /\ \E i \in Candidates :
           /\ AnyData(i)
           /\ \E k \in 1..Len(merged) :
                  /\ merged[k].start < boundaries[i]
                  /\ boundaries[i + 1] - 1 <= merged[k].end
                  /\ Value(merged[k]) = Resolved(i)

\* a candidate segment without data lies between two that have data
C3_WitnessGap ==
    /\ Done
    /\ Len(merged) = 2
    /\ \E i \in Candidates : ~ AnyData(i)

\* two entries that the coalescing pass has to combine
Mergeable(a, b) == Value(a) = Value(b) /\ a.end + 1 = b.start

\* C4: the merged table never holds two consecutive segments with equal
\* (country, lat, lon) and contiguous ranges; two such consecutive entries of
\* the sweep's output lie in one merged segment.
C4_Coalesced ==
    Done =>
        /\ \A k \in 1..(Len(merged) - 1) : ~ Mergeable(merged[k], merged[k + 1])
        /\ \A i \in 1..(Len(output) - 1) :
               Mergeable(output[i], output[i + 1]) =>
                   \E k \in 1..Len(merged) :
                       /\ merged[k].start <= output[i].start
                       /\ output[i + 1].end <= merged[k].end
                       /\ Value(merged[k]) = Value(output[i])

\* three entries of the output: the first two were combined, the third has
\* the same country with other coordinates and stayed apart
C4_Witness ==
    /\ Done
    /\ Len(output) = 3
    /\ Len(merged) = 2
    /\ Mergeable(output[1], output[2])
    /\ merged[1].start = output[1].start
    /\ merged[1].end = output[2].end
    /\ merged[2].country = merged[1].country
    /\ merged[2].start = merged[1].end + 1

-----------------------------------------------------------------------------
(* PointSpec: one run of main on files whose lines need not have start <= end *)

\* the loaders add every line whose addresses parse: start is not compared
\* with end.  sources.yaml lists coord_priority.
PointInit ==
    /\ \E L \in KSubsets(TaggedLines, MaxRecs) :
           files = [n \in MainNames |-> FileOf(L, n)]
    /\ merge_config \in {cfg \in MainConfigs : "coord_priority" \in DOMAIN cfg}
    /\ hashOrder \in HashOrders(merge_config)
    /\ run = 1
    /\ firstMerged = <<>>
    /\ RunStart
    /\ IdleSweep /\ IdleCenter

PointNext == LoadSources \/ FindBoundaries \/ SweepSegment \/ MergeConsecutive

PointSpec == PointInit /\ [][PointNext]_vars

\* every address a line can cover, and the one after the last
Addresses == 0..(MaxAddr + 1)

\* the lines of source n's file whose range start..end (end inclusive, as in
\* the file) holds address p
LinesAt(n, p) ==
    {i \in 1..Len(files[n]) : files[n][i][1] <= p /\ p <= files[n][i][2]}

\* no address lies in two records of one source
NoOverlappingRecords ==
    \A n \in MainNames, p \in Addresses : Cardinality(LinesAt(n, p)) <= 1

\* the point-by-point merge: the observation of every source at p itself
PointData(p) ==
    [n \in MainNames |->
        IF LinesAt(n, p) = {} THEN NoneV
        ELSE files[n][CHOOSE i \in LinesAt(n, p) : TRUE][3]]

\* what pick_winner returns for the observations at p
PointWinner(p) ==
    LET w == PickWinner(PointData(p), MainLatLong, merge_config, hashOrder)
    IN  <<w.country, w.lat, w.lon>>

\* address p lies in segment e
Inside(p, e) == e.start <= p /\ p <= e.end

\* the points of the sweep's queries, boundaries[0], boundaries[1], ...,
\* increase
QueriesAscend ==
    \A i \in 1..(Len(boundaries) - 1) : boundaries[i] < boundaries[i + 1]

\* C11: when no source has two records sharing an address, the sweep equals
\* the point-by-point merge: every address p of a merged segment carries what
\* pick_winner returns for the observations of all sources at p itself, every
\* address outside the merged segments is covered by no source, no source's
\* observation changes inside a candidate segment, and the sweep queries the
\* tables at increasing points.
C11_PointEquivalence ==
    /\ QueriesAscend
    /\ NoOverlappingRecords =>
           /\ \A i \in 1..Len(observed) :
                  \A p \in boundaries[i]..(boundaries[i + 1] - 1) :
                      observed[i] = PointData(p)
           /\ Done =>
                  /\ \A k \in 1..Len(merged) :
                         \A p \in merged[k].start..merged[k].end :
                             Value(merged[k]) = PointWinner(p)
                  /\ \A p \in Addresses :
                         (\A k \in 1..Len(merged) : ~ Inside(p, merged[k])) =>
                             \A n \in MainNames : IsNone(PointData(p)[n])

\* a merged segment with an address past its start where the sources observe
\* something else than at its start
C11_Witness ==
    /\ Done
    /\ NoOverlappingRecords
    /\ \E k \in 1..Len(merged) :
           \E p \in (merged[k].start + 1)..merged[k].end :
               PointData(p) # PointData(merged[k].start)

\* a gap between two merged segments that no source covers
C11_WitnessGap ==
    /\ Done
    /\ NoOverlappingRecords
    /\ Len(merged) = 2
    /\ merged[1].end + 1 < merged[2].start

\* a line with end < start among the input, next to a record that is merged
C11_WitnessInverted ==
    /\ Done
    /\ NoOverlappingRecords
    /\ merged # <<>>
    /\ \E n \in MainNames : \E i \in 1..Len(files[n]) :
           files[n][i][2] < files[n][i][1]

=============================================================================
